---- MODULE Spec2Model ----
(***************************************************************************)
(* State-machine model of ttv2fast2furious/companion_limits.py:            *)
(*   PerturberPeriodPhaseToBestSigmaChiSquared  (the Estimator)            *)
(*   q_integrand, q_of_mup                      (the phase marginal)       *)
(*   UnseenPerturberMassUpperLimit              (the Limit operation)      *)
(*                                                                         *)
(* Arithmetic.  The least-squares fits are computed exactly over the       *)
(* rationals (normal equations, Cramer's rule); a rational is a pair       *)
(* <<numerator, denominator>> in lowest terms with denominator > 0.        *)
(* The floating-point arrays handed to q_of_mup are fixed-point integers:  *)
(* masses and sigmas in units of 1/FP, q and confidence levels in units    *)
(* of 1/QOne.  erf and exp are monotone tables.                            *)
(***************************************************************************)
EXTENDS Integers, Sequences, FiniteSets, TLC

VARIABLES
    op,                 \* which entry point is called: "estimate" or "limit"
    TransitData,        \* [num, time, unc]: three aligned sequences
    PlanetData,         \* None or <<T0, P>>
    Ppert,              \* trial perturber period
    Nphi,               \* number of phase grid points
    phi,                \* index (0..Nphi-1) of the phase of the running Estimator call
    full_output,        \* the Estimator's full_output argument
    confidence_levels,  \* requested levels, in units of 1/QOne
    Mmax0,              \* the Limit operation's parameter Mmax0 (reassigned by the search)
    guess,              \* Mmax0 as the caller passed it
    pc,                 \* position in the code
    T0P,                \* the Estimator's (T0, P)
    dt0_basis_fn,       \* the Estimator's basis column for indices 0..Ntransits
    design_Matrix,      \* the Estimator's weighted design matrix, one row per observation
    best,               \* the Estimator's best-fit vector (three rationals)
    Sigma22,            \* the Estimator's Sigma_matrix[2,2]
    chisq,              \* the Estimator's chisq
    fits,               \* least-squares solves performed so far (lstsq, inv, minimize)
    refit,              \* has the running Estimator call run the constrained refit
    ret,                \* the value returned by the last Estimator call
    fitdata,            \* per-phase (mbest, sigma, chisq) collected by the Limit operation
    dchisq,             \* the Limit operation's dchisq, in units of 1/CRes
    li,                 \* index of the confidence level being processed
    doublings,          \* doublings of Mmax0 done for the current level
    qcalls,             \* has q_of_mup been evaluated in this request
    rootcalls,          \* has brenth been invoked in this request
    brackets,           \* Mmax0 at each brenth invocation, per level
    mups                \* the limits found so far

vars == <<op, TransitData, PlanetData, Ppert, Nphi, phi, full_output,
          confidence_levels, Mmax0, guess, pc, T0P, dt0_basis_fn, design_Matrix,
          best, Sigma22, chisq, fits, refit, ret, fitdata, dchisq, li, doublings, qcalls,
          rootcalls, brackets, mups>>

(***************************************************************************)
(* Bounds of the model.                                                    *)
(***************************************************************************)
MaxNphi == 3
MaxLevels == 2
MaxDoublings == 5
MaxScale == 2

(***************************************************************************)
(* Fixed-point scales.                                                     *)
(***************************************************************************)
FP == 4
CRes == 2
QOne == 1000
ErfOne == 10000
ZRes == 4

(***************************************************************************)
(* Integer and rational helpers.                                           *)
(***************************************************************************)
Abs(x) == IF x < 0 THEN -x ELSE x

Max(a, b) == IF a >= b THEN a ELSE b

Min(a, b) == IF a <= b THEN a ELSE b

RECURSIVE GCD(_, _)
GCD(a, b) == IF b = 0 THEN a ELSE GCD(b, a % b)

RECURSIVE SumTo(_, _)
SumTo(f, n) == IF n = 0 THEN 0 ELSE f[n] + SumTo(f, n - 1)

RECURSIVE MaxTo(_, _)
MaxTo(f, n) == IF n = 1 THEN f[1] ELSE Max(f[n], MaxTo(f, n - 1))

RECURSIVE LcmTo(_, _)
LcmTo(f, n) == IF n = 0 THEN 1 ELSE LET l == LcmTo(f, n - 1) IN (l * f[n]) \div GCD(l, f[n])

\* n/d in lowest terms, d > 0
Rat(n, d) ==
    LET s == IF d < 0 THEN -1 ELSE 1
        g == GCD(Abs(n), Abs(d))
    IN  <<(s * n) \div g, (s * d) \div g>>

\* division truncating toward zero (an odd function of x)
Trunc(x, d) == IF x >= 0 THEN x \div d ELSE -((-x) \div d)

\* floor of a rational times a scale
ToFixed(r, scale) == (r[1] * scale) \div r[2]

RECURSIVE IsqrtFrom(_, _)
IsqrtFrom(n, r) == IF (r + 1) * (r + 1) > n THEN r ELSE IsqrtFrom(n, r + 1)

\* np.sqrt on a fixed-point value
Isqrt(n) == IsqrtFrom(n, 0)

Det3(M) ==
      M[1][1] * (M[2][2] * M[3][3] - M[2][3] * M[3][2])
    - M[1][2] * (M[2][1] * M[3][3] - M[2][3] * M[3][1])
    + M[1][3] * (M[2][1] * M[3][2] - M[2][2] * M[3][1])

(***************************************************************************)
(* Inputs of the model.  Times are near the ephemeris T0 = 0, P = 4.       *)
(***************************************************************************)
Datasets ==
    { [num |-> <<0, 1, 2, 3>>,    time |-> <<0, 5, 8, 11>>,     unc |-> <<1, 1, 1, 1>>],
      [num |-> <<0, 1, 2, 3>>,    time |-> <<0, 5, 8, 11>>,     unc |-> <<1, 2, 1, 2>>],
      [num |-> <<0, 1, 2, 3>>,    time |-> <<1, 4, 9, 12>>,     unc |-> <<2, 1, 1, 1>>],
      [num |-> <<0, 1, 3, 3>>,    time |-> <<0, 5, 12, 13>>,    unc |-> <<1, 1, 2, 1>>],
      [num |-> <<0, 1, 2, 3, 4>>, time |-> <<0, 5, 8, 12, 17>>, unc |-> <<1, 1, 2, 1, 1>>],
      [num |-> <<2, 0, -1, 1>>,   time |-> <<8, 0, -4, 5>>,     unc |-> <<1, 1, 1, 2>>],
      [num |-> <<0, 1, 2>>,       time |-> <<0, 5, 8>>,         unc |-> <<1, 1, 1>>],
      [num |-> <<0, 0, 1, 1>>,    time |-> <<0, 1, 4, 5>>,      unc |-> <<1, 1, 1, 1>> ] }

PpertChoices == {4, 6}

\* PlanetData = None
None == <<>>

PlanetDataChoices == {None, <<0, 4>>}

\* confidence levels in units of 1/QOne: negative, valid, and >= 1
LevelChoices == {-250, 0, 500, 900, 1000}

Mmax0Choices == {0, 1}

\* a phase grid spanning [-pi, pi] has at least its two end points
NphiChoices == 2..MaxNphi

\* requests of up to MaxLevels distinct levels, in any order
LevelLists ==
    UNION { { l \in [1..n -> LevelChoices] : \A i, j \in 1..n : i # j => l[i] # l[j] }
            : n \in 1..MaxLevels }

(***************************************************************************)
(* The basis functions of ttv_basis_functions (an external collaborator):  *)
(* one coefficient per transit index 0..count-1, periodic in the           *)
(* perturber's epoch.  Tpert is counted in quarters of Ppert.              *)
(***************************************************************************)
Wave(k) == LET r == k % 4 IN IF r = 1 THEN 1 ELSE IF r = 3 THEN -1 ELSE 0

dt0_InnerPlanet(P, Pp, T0, Tp, count) == [n \in 1..count |-> Wave((n - 1) - Tp)]

dt0_OuterPlanet(P, Pp, T0, Tp, count) == [n \in 1..count |-> Wave(3 * (n - 1) - Tp)]

(***************************************************************************)
(* PerturberPeriodPhaseToBestSigmaChiSquared: the pure parts.              *)
(* Every row of a weighted matrix is kept multiplied by UncLcm, the least  *)
(* common multiple of the uncertainties, so that its entries are integers; *)
(* the factor cancels in the solutions and is divided out of chisq and     *)
(* multiplied into Sigma_matrix.                                           *)
(***************************************************************************)
Ndata(d) == Len(d.num)

UncLcm(d) == LcmTo(d.unc, Ndata(d))

FirstNonNegative(transit_num) == transit_num[1] >= 0

\* line 39: np.alltrue(transit_num >= 0)
AllNonNegative(transit_num) == \A i \in 1..Len(transit_num) : transit_num[i] >= 0

\* line 42: Ntransits = int(np.max(transit_num))
Ntransits(d) == MaxTo(d.num, Ndata(d))

\* line 43: Tpert = Ppert * phi / (2 pi), phi the j-th point of linspace(-pi, pi, N),
\* in quarters of Ppert
Tpert(j, N) == (4 * j) \div (N - 1) - 2

yvecUnweighted(d) ==
    LET L == UncLcm(d) IN [i \in 1..Ndata(d) |-> L * d.time[i]]

\* line 41: yvec = transit_time / transit_unc
yvec(d) ==
    LET L == UncLcm(d) IN [i \in 1..Ndata(d) |-> (L \div d.unc[i]) * d.time[i]]

\* line 48: A = vstack([ones/transit_unc, transit_num/transit_unc]).T
EphemerisMatrix(d) ==
    LET L == UncLcm(d)
    IN  [i \in 1..Ndata(d) |-> <<L \div d.unc[i], (L \div d.unc[i]) * d.num[i]>>]

\* line 58: bfMatrix, one row per index 0..Ntransits
bfMatrix(d, basis) == [n \in 1..(Ntransits(d) + 1) |-> <<1, n - 1, basis[n]>>]

\* line 60: design_Matrix, one row per observation
DesignRows(d, basis) ==
    LET L    == UncLcm(d)
        rows == bfMatrix(d, basis)
    IN  [i \in 1..Ndata(d) |->
            LET r   == L \div d.unc[i]
                \* a negative index counts from the end of the array
                row == rows[(d.num[i] % (Ntransits(d) + 1)) + 1]
            IN  <<r * row[1], r * row[2], r * row[3]>>]

\* X^T X and X^T y for a matrix X with k columns
GramEntry(X, a, b) == SumTo([i \in 1..Len(X) |-> X[i][a] * X[i][b]], Len(X))

Gram(X, k) ==
    IF k = 2
    THEN <<<<GramEntry(X, 1, 1), GramEntry(X, 1, 2)>>,
           <<GramEntry(X, 2, 1), GramEntry(X, 2, 2)>>>>
    ELSE <<<<GramEntry(X, 1, 1), GramEntry(X, 1, 2), GramEntry(X, 1, 3)>>,
           <<GramEntry(X, 2, 1), GramEntry(X, 2, 2), GramEntry(X, 2, 3)>>,
           <<GramEntry(X, 3, 1), GramEntry(X, 3, 2), GramEntry(X, 3, 3)>>>>

MomentEntry(X, y, a) == SumTo([i \in 1..Len(X) |-> X[i][a] * y[i]], Len(X))

Moment(X, y, k) ==
    IF k = 2
    THEN <<MomentEntry(X, y, 1), MomentEntry(X, y, 2)>>
    ELSE <<MomentEntry(X, y, 1), MomentEntry(X, y, 2), MomentEntry(X, y, 3)>>

Dot(y) == SumTo([i \in 1..Len(y) |-> y[i] * y[i]], Len(y))

Det2(G) == G[1][1] * G[2][2] - G[1][2] * G[2][1]

\* np.linalg.lstsq with two columns: the solution (minimum norm when rank 1)
\* and the residual sum of squares (times UncLcm^2)
Lstsq2(X, y) ==
    LET G == Gram(X, 2)
        m == Moment(X, y, 2)
        e == Det2(G)
        a == G[2][2] * m[1] - G[1][2] * m[2]
        b == G[1][1] * m[2] - G[1][2] * m[1]
    IN  IF e # 0
        THEN [x |-> <<Rat(a, e), Rat(b, e)>>,
              resid |-> Rat(Dot(y) * e - (a * m[1] + b * m[2]), e)]
        ELSE [x |-> <<Rat(m[1], G[1][1] + G[2][2]),
                      Rat(m[2], G[1][1] + G[2][2])>>,
              resid |-> Rat(Dot(y) * (G[1][1] + G[2][2]) - (m[1] * m[1] + m[2] * m[2]),
                            G[1][1] + G[2][2])]

\* the determinant of design_Matrix.T.dot(design_Matrix)
GramDet(X) == Det3(Gram(X, 3))

\* np.linalg.lstsq with three columns of full rank
Lstsq3(X, y) ==
    LET G  == Gram(X, 3)
        m  == Moment(X, y, 3)
        dd == Det3(G)
        c1 == Det3(<<<<m[1], G[1][2], G[1][3]>>, <<m[2], G[2][2], G[2][3]>>,
                     <<m[3], G[3][2], G[3][3]>>>>)
        c2 == Det3(<<<<G[1][1], m[1], G[1][3]>>, <<G[2][1], m[2], G[2][3]>>,
                     <<G[3][1], m[3], G[3][3]>>>>)
        c3 == Det3(<<<<G[1][1], G[1][2], m[1]>>, <<G[2][1], G[2][2], m[2]>>,
                     <<G[3][1], G[3][2], m[3]>>>>)
    IN  [x |-> <<Rat(c1, dd), Rat(c2, dd), Rat(c3, dd)>>,
         resid |-> Rat(Dot(y) * dd - (c1 * m[1] + c2 * m[2] + c3 * m[3]), dd)]

\* lines 47-49: T0, P = lstsq(A, yvec)[0]
EphemerisFit(d) == Lstsq2(EphemerisMatrix(d), yvec(d)).x

\* line 62: Sigma_matrix[2,2] of inv(design_Matrix.T.dot(design_Matrix))
Sigma_matrix22(d, X) ==
    LET L == UncLcm(d) IN Rat(L * L * Det2(Gram(X, 3)), GramDet(X))

\* lines 63-64: the residual sum of squares of the unconstrained fit
UnconstrainedChisq(d, X) ==
    LET L == UncLcm(d)
        r == Lstsq3(X, yvec(d)).resid
    IN  Rat(r[1], r[2] * L * L)

\* lines 66-70: minsoln.fun, the minimum of to_minimize subject to x[2] >= 0;
\* taken when best[2] < 0, so the minimum lies on the boundary x[2] = 0
ConstrainedChisq(d, X) ==
    LET L == UncLcm(d)
        r == Lstsq2(X, yvec(d)).resid
    IN  Rat(r[1], r[2] * L * L)

\* line 53: Ppert > P, P a rational
PerturberIsOuter(Pp, P) == Pp * P[2] > P[1]

\* lines 53-56
BasisFor(d, Pp, eph, j, N) ==
    IF PerturberIsOuter(Pp, eph[2])
    THEN dt0_InnerPlanet(eph[2], Pp, eph[1], Tpert(j, N), Ntransits(d) + 1)
    ELSE dt0_OuterPlanet(eph[2], Pp, eph[1], Tpert(j, N), Ntransits(d) + 1)

(***************************************************************************)
(* q_integrand and q_of_mup.                                               *)
(***************************************************************************)
\* scipy.special.erf at k/ZRes, times ErfOne: odd, strictly increasing on the
\* table, strictly between -1 and 1
ErfTable == <<2763, 5205, 7112, 8427, 9229, 9661, 9867, 9953, 9985, 9996, 9999>>

erf(k) ==
    IF k = 0 THEN 0
    ELSE IF k > 0 THEN ErfTable[Min(k, Len(ErfTable))]
    ELSE -ErfTable[Min(-k, Len(ErfTable))]

\* x / sigma / np.sqrt(2) in units of 1/ZRes
ErfArg(x, sigma) == Trunc(ZRes * x * 1000, sigma * 1414)

\* lines 97-99, in units of 1/QOne
q_integrand(mup, mbest, sigma) ==
    LET num   == erf(ErfArg(mbest, sigma)) + erf(ErfArg(mup - mbest, sigma))
        denom == ErfOne + erf(ErfArg(mbest, sigma))
    IN  (num * QOne) \div denom

\* np.exp(-0.5 * dchisq) times 100, dchisq in units of 1/CRes
ExpTable == <<739, 575, 448, 349, 272, 212, 165, 128, 100, 78, 61, 47, 37, 29, 22, 17, 14>>

exp_half_neg(dd) == ExpTable[Max(-8, Min(8, dd)) + 9]

\* line 139: dchisq = chisq - np.mean(chisq)
MeanCentred(fd) ==
    LET mean == SumTo([j \in 1..Len(fd) |-> fd[j].chisq], Len(fd)) \div Len(fd)
    IN  [j \in 1..Len(fd) |-> fd[j].chisq - mean]

\* scipy.integrate.trapz over the uniform phase grid, in units of half the grid step
trapz(y) == SumTo([j \in 1..(Len(y) - 1) |-> y[j] + y[j + 1]], Len(y) - 1)

\* line 140, in units of 1/QOne
q_of_mup(mup, fd, dc) ==
    trapz([j \in 1..Len(fd) |->
              q_integrand(mup, fd[j].mbest, fd[j].sigma) * exp_half_neg(dc[j])])
        \div trapz([j \in 1..Len(fd) |-> exp_half_neg(dc[j])])

SearchContinuesOnce(M, cl, fd, dc, n) == n = 0 /\ q_of_mup(M, fd, dc) - cl < 0

\* line 146: the loop condition; n is the number of doublings done for this level
SearchContinues(M, cl, fd, dc, n) == q_of_mup(M, fd, dc) - cl < 0

BracketLowerHalved(M, grown) == IF grown > 0 THEN M \div 2 ELSE 0

\* line 148: the lower end of the bracket handed to brenth; grown is what the
\* search has added to Mmax0 in this request
BracketLower(M, grown) == 0

\* the bracketing iteration of brenth on the mass grid: lo and hi keep values of
\* f of opposite sign; the sign change is reported at its upper grid point
RECURSIVE Bisect(_, _, _, _, _, _)
Bisect(cl, fd, dc, lo, hi, rising) ==
    IF hi - lo <= 1 THEN hi
    ELSE LET mid == (lo + hi) \div 2
             fm  == q_of_mup(mid, fd, dc) - cl
         IN  IF (rising /\ fm >= 0) \/ (~rising /\ fm <= 0)
             THEN Bisect(cl, fd, dc, lo, mid, rising)
             ELSE Bisect(cl, fd, dc, mid, hi, rising)

\* scipy.optimize.brenth(lambda x: q_of_mup(x) - cl, a, b): f(a) and f(b) must
\* not have the same sign (ValueError)
brenth(cl, fd, dc, a, b) ==
    LET fa == q_of_mup(a, fd, dc) - cl
        fb == q_of_mup(b, fd, dc) - cl
    IN  IF fa = 0 THEN [ok |-> TRUE, root |-> a]
        ELSE IF (fa > 0 /\ fb > 0) \/ (fa < 0 /\ fb < 0) THEN [ok |-> FALSE, root |-> 0]
        ELSE [ok |-> TRUE, root |-> Bisect(cl, fd, dc, a, b, fa < 0)]

PrependLimit(ms, x) == <<x>> \o ms

\* line 148: mups.append(...)
AppendLimit(ms, x) == Append(ms, x)

BestAfterRefitAliased(b) == <<b[1], b[2], Rat(0, 1)>>

\* lines 67-68: x0 = np.copy(best); x0[2] = 0 leaves best as it was
BestAfterRefit(b) == b

\* np.sqrt(Sigma_matrix[2,2]) in units of 1/FP
SigmaFixed(s22) == Max(1, Isqrt(ToFixed(s22, FP * FP)))

\* line 138: one row (mbest, sigma, chisq) of the array built from the returns
FitRow(r) == [mbest |-> ToFixed(r[1], FP), sigma |-> r[2], chisq |-> ToFixed(r[3], CRes)]

(***************************************************************************)
(* The state machine.                                                      *)
(***************************************************************************)
Init ==
    /\ op \in {"estimate", "limit"}
    /\ TransitData \in Datasets
    /\ PlanetData \in PlanetDataChoices
    /\ Ppert \in PpertChoices
    /\ Nphi \in NphiChoices
    /\ IF op = "estimate"
       THEN /\ phi \in 0..(Nphi - 1)
            /\ full_output \in BOOLEAN
            /\ confidence_levels = <<>>
            /\ Mmax0 = 0
       ELSE /\ phi = 0
            /\ full_output = FALSE
            /\ confidence_levels \in LevelLists
            /\ Mmax0 \in Mmax0Choices
    /\ guess = Mmax0
    /\ pc = IF op = "estimate" THEN "est_assert" ELSE "lim_phases"
    /\ T0P = <<>>
    /\ dt0_basis_fn = <<>>
    /\ design_Matrix = <<>>
    /\ best = <<>>
    /\ Sigma22 = <<>>
    /\ chisq = <<>>
    /\ fits = 0
    /\ refit = FALSE
    /\ ret = <<>>
    /\ fitdata = <<>>
    /\ dchisq = <<>>
    /\ li = 0
    /\ doublings = 0
    /\ qcalls = FALSE
    /\ rootcalls = FALSE
    /\ brackets = <<>>
    /\ mups = <<>>

inputs == <<op, TransitData, PlanetData, Ppert, Nphi, full_output, confidence_levels, guess>>

estimator == <<T0P, dt0_basis_fn, design_Matrix, best, Sigma22, chisq, refit>>

solver == <<dchisq, Mmax0, li, doublings, qcalls, rootcalls, brackets, mups>>

\* line 137 and the first iteration of the comprehension of line 138
LimPhases ==
    /\ pc = "lim_phases"
    /\ pc' = "est_assert"
    /\ phi' = 0
    /\ UNCHANGED <<inputs, estimator, solver, fits, ret, fitdata>>

\* lines 38-39
EstAssert ==
    /\ pc = "est_assert"
    /\ pc' = IF AllNonNegative(TransitData.num) THEN "est_ephemeris" ELSE "AssertionError_39"
    /\ refit' = FALSE
    /\ UNCHANGED <<inputs, phi, T0P, dt0_basis_fn, design_Matrix, best, Sigma22, chisq, solver, fits,
                   ret, fitdata>>

\* lines 41-51
EstEphemeris ==
    /\ pc = "est_ephemeris"
    /\ IF PlanetData = None
       THEN /\ T0P' = EphemerisFit(TransitData)
            /\ fits' = fits + 1
       ELSE /\ T0P' = <<Rat(PlanetData[1], 1), Rat(PlanetData[2], 1)>>
            /\ fits' = fits
    /\ pc' = "est_basis"
    /\ UNCHANGED <<inputs, phi, dt0_basis_fn, design_Matrix, best, Sigma22, chisq, refit, solver, ret,
                   fitdata>>

\* lines 53-60
EstBasis ==
    /\ pc = "est_basis"
    /\ dt0_basis_fn' = BasisFor(TransitData, Ppert, T0P, phi, Nphi)
    /\ design_Matrix' = DesignRows(TransitData, dt0_basis_fn')
    /\ pc' = "est_solve"
    /\ UNCHANGED <<inputs, phi, T0P, best, Sigma22, chisq, refit, solver, fits, ret,
                   fitdata>>

\* lines 62-64: inv raises LinAlgError on a singular matrix; lstsq returns no
\* residual when there are no more observations than columns, and chisq[0] raises
EstSolve ==
    /\ pc = "est_solve"
    /\ fits' = fits + 1
    /\ LET X == design_Matrix
       IN  IF GramDet(X) = 0
           THEN /\ pc' = "LinAlgError"
                /\ UNCHANGED <<best, Sigma22, chisq>>
           ELSE IF Ndata(TransitData) <= 3
           THEN /\ pc' = "IndexError"
                /\ best' = Lstsq3(X, yvec(TransitData)).x
                /\ Sigma22' = Sigma_matrix22(TransitData, X)
                /\ UNCHANGED chisq
           ELSE /\ pc' = "est_refit"
                /\ best' = Lstsq3(X, yvec(TransitData)).x
                /\ Sigma22' = Sigma_matrix22(TransitData, X)
                /\ chisq' = UnconstrainedChisq(TransitData, X)
    /\ UNCHANGED <<inputs, phi, T0P, dt0_basis_fn, design_Matrix, refit, solver, ret, fitdata>>

\* lines 65-70
EstRefit ==
    /\ pc = "est_refit"
    /\ IF best[3][1] < 0
       THEN /\ chisq' = ConstrainedChisq(TransitData, design_Matrix)
            /\ best' = BestAfterRefit(best)
            /\ refit' = TRUE
            /\ fits' = fits + 1
       ELSE UNCHANGED <<chisq, best, refit, fits>>
    /\ pc' = "est_return"
    /\ UNCHANGED <<inputs, phi, T0P, dt0_basis_fn, design_Matrix, Sigma22, solver, ret, fitdata>>

\* lines 72-75; line 73 reads design_matrix, a name that is not bound (NameError).
\* In the Limit operation the return is the next row of the array of line 138.
EstReturn ==
    /\ pc = "est_return"
    /\ IF full_output
       THEN /\ pc' = "NameError"
            /\ UNCHANGED <<ret, fitdata, phi>>
       ELSE /\ ret' = <<best[3], SigmaFixed(Sigma22), chisq>>
            /\ IF op = "estimate"
               THEN /\ pc' = "done"
                    /\ UNCHANGED <<fitdata, phi>>
               ELSE /\ fitdata' = Append(fitdata, FitRow(ret'))
                    /\ IF phi + 1 < Nphi
                       THEN phi' = phi + 1 /\ pc' = "est_assert"
                       ELSE phi' = phi /\ pc' = "lim_marginal"
    /\ UNCHANGED <<inputs, estimator, solver, fits>>

\* lines 139-142: dchisq is computed and q_of_mup defined; q is not evaluated yet
LimMarginal ==
    /\ pc = "lim_marginal"
    /\ dchisq' = MeanCentred(fitdata)
    /\ mups' = <<>>
    /\ li' = 1
    /\ pc' = "lim_level"
    /\ UNCHANGED <<inputs, phi, estimator, Mmax0, doublings, qcalls, rootcalls, brackets,
                   fits, ret, fitdata>>

\* lines 144-145 and 150
LimLevel ==
    /\ pc = "lim_level"
    /\ pc' = IF li > Len(confidence_levels) THEN "done"
             ELSE IF confidence_levels[li] < QOne THEN "lim_search"
             ELSE "AssertionError_145"
    /\ doublings' = 0
    /\ UNCHANGED <<inputs, phi, estimator, dchisq, Mmax0, li, qcalls, rootcalls, brackets,
                   mups, fits, ret, fitdata>>

\* lines 146-147: one more turn of the loop
LimDouble ==
    /\ pc = "lim_search"
    /\ doublings < MaxDoublings
    /\ SearchContinues(Mmax0, confidence_levels[li], fitdata, dchisq, doublings)
    /\ Mmax0' = 2 * Mmax0
    /\ doublings' = doublings + 1
    /\ qcalls' = TRUE
    /\ UNCHANGED <<inputs, phi, estimator, dchisq, pc, li, rootcalls, brackets, mups, fits,
                   ret, fitdata>>

\* line 146: the loop condition is false
LimBracketed ==
    /\ pc = "lim_search"
    /\ ~SearchContinues(Mmax0, confidence_levels[li], fitdata, dchisq, doublings)
    /\ qcalls' = TRUE
    /\ pc' = "lim_brenth"
    /\ UNCHANGED <<inputs, phi, estimator, dchisq, Mmax0, li, doublings, rootcalls, brackets,
                   mups, fits, ret, fitdata>>

\* line 148
LimBrenth ==
    /\ pc = "lim_brenth"
    /\ rootcalls' = TRUE
    /\ qcalls' = TRUE
    /\ brackets' = Append(brackets, Mmax0)
    /\ LET r == brenth(confidence_levels[li], fitdata, dchisq, BracketLower(Mmax0, Mmax0 - guess), Mmax0)
       IN  IF r.ok
           THEN /\ mups' = AppendLimit(mups, r.root)
                /\ li' = li + 1
                /\ pc' = "lim_level"
           ELSE /\ pc' = "ValueError"
                /\ UNCHANGED <<mups, li>>
    /\ UNCHANGED <<inputs, phi, estimator, dchisq, Mmax0, doublings, fits, ret, fitdata>>

Next ==
    \/ LimPhases
    \/ EstAssert
    \/ EstEphemeris
    \/ EstBasis
    \/ EstSolve
    \/ EstRefit
    \/ EstReturn
    \/ LimMarginal
    \/ LimLevel
    \/ LimDouble
    \/ LimBracketed
    \/ LimBrenth

Spec == Init /\ [][Next]_vars

(***************************************************************************)
(* Definitions used to state the properties.                               *)
(***************************************************************************)
Terminal == {"done", "AssertionError_39", "AssertionError_145", "LinAlgError",
             "IndexError", "NameError", "ValueError"}

HasNegativeIndex == \E i \in 1..Len(TransitData.num) : TransitData.num[i] < 0

RatLeq(a, b) == a[1] * b[2] <= b[1] * a[2]

\* the level being processed by the search or the root-finder
CurrentLevel == confidence_levels[li]

\* the unconstrained weighted fit of the running Estimator call, recomputed
\* from its design matrix and observations
FitNow == Lstsq3(design_Matrix, yvec(TransitData))

\* the weighted normal equations of the regression of time on index:
\* sum w (t - T0 - P n) = 0 and sum w n (t - T0 - P n) = 0, w = 1/unc^2
WeightedNormalEquations(d, eph) ==
    LET L == UncLcm(d)
        a == eph[1][1]
        b == eph[1][2]
        c == eph[2][1]
        e == eph[2][2]
        res(i) == (L \div d.unc[i]) * (L \div d.unc[i])
                      * (d.time[i] * b * e - a * e - c * b * d.num[i])
    IN  /\ SumTo([i \in 1..Ndata(d) |-> res(i)], Ndata(d)) = 0
        /\ SumTo([i \in 1..Ndata(d) |-> d.num[i] * res(i)], Ndata(d)) = 0

ScaledUnc(d, k) == [d EXCEPT !.unc = [i \in 1..Ndata(d) |-> k * d.unc[i]]]

UniformUnc(d) == [d EXCEPT !.unc = [i \in 1..Ndata(d) |-> 1]]

\* the bound a request for the single level cl reaches from the caller's guess
RECURSIVE SoloBound(_, _, _)
SoloBound(M, cl, n) ==
    IF n = 0 \/ q_of_mup(M, fitdata, dchisq) >= cl THEN M
    ELSE SoloBound(2 * M, cl, n - 1)

\* the limit a request for the single level cl returns
SoloLimit(cl) ==
    brenth(cl, fitdata, dchisq, 0, SoloBound(guess, cl, MaxDoublings * MaxLevels)).root

(***************************************************************************)
(* C1.  A request holding a confidence level >= 1 anywhere in its list is  *)
(* rejected before q has been evaluated and before any root-finding.       *)
(***************************************************************************)
C1_RejectedBeforeAnyEvaluation ==
    pc = "AssertionError_145" => (~qcalls /\ ~rootcalls)

(***************************************************************************)
(* C2.  The Estimator called with full_output on a valid observation set   *)
(* with a non-singular design matrix returns a 4-tuple and does not end in *)
(* an error.                                                               *)
(***************************************************************************)
C2_FullOutputReturnsDiagnostics ==
    (/\ op = "estimate"
     /\ full_output
     /\ pc \in Terminal \ {"AssertionError_39", "LinAlgError", "IndexError"})
    => (pc = "done" /\ Len(ret) = 4)

(***************************************************************************)
(* C3.  With a negative transit index anywhere in the observation set the  *)
(* Estimator rejects before any least-squares fit, and the Limit operation *)
(* rejects on its first phase without any limit.                           *)
(***************************************************************************)
C3_NegativeIndexRejectedBeforeFit ==
    HasNegativeIndex =>
        /\ fits = 0
        /\ fitdata = <<>>
        /\ mups = <<>>
        /\ pc \in {"lim_phases", "est_assert", "AssertionError_39"}
        /\ (op = "limit" => phi = 0)

C3_Witness ==
    /\ HasNegativeIndex
    /\ TransitData.num[1] >= 0
    /\ op = "limit"
    /\ pc = "AssertionError_39"

(***************************************************************************)
(* C4.  In a returned request, for any two levels cl1 < cl2 in either      *)
(* order, the limit for cl1 is at most the limit for cl2.                  *)
(***************************************************************************)
C4_LimitsMonotoneInLevel ==
    (op = "limit" /\ pc = "done") =>
        \A i, j \in 1..Len(confidence_levels) :
            confidence_levels[i] < confidence_levels[j] => mups[i] <= mups[j]

C4_Witness ==
    /\ op = "limit"
    /\ pc = "done"
    /\ Len(mups) = 2
    /\ confidence_levels[1] > confidence_levels[2]
    /\ mups[1] > mups[2]
    /\ mups[2] > 0

(***************************************************************************)
(* C5.  Whenever brenth is invoked, q(Mmax0) >= cl for the level being     *)
(* processed, also for a level processed after Mmax0 was enlarged.         *)
(***************************************************************************)
C5_BoundReachesLevelAtRootFinding ==
    pc = "lim_brenth" => q_of_mup(Mmax0, fitdata, dchisq) >= CurrentLevel

C5_Witness ==
    /\ pc = "lim_brenth"
    /\ li = 2
    /\ brackets[1] > guess
    /\ Mmax0 > brackets[1]

(***************************************************************************)
(* C6.  For every level cl < 1 and every initial guess, when the doubling  *)
(* search has ended [0, Mmax0] is a valid bracket: q(0) - cl and           *)
(* q(Mmax0) - cl do not have the same sign.                                *)
(***************************************************************************)
C6_SearchLeavesValidBracket ==
    pc = "lim_brenth" =>
        /\ q_of_mup(0, fitdata, dchisq) - CurrentLevel <= 0
        /\ q_of_mup(Mmax0, fitdata, dchisq) - CurrentLevel >= 0

(***************************************************************************)
(* C7.  The constrained refit runs exactly when the unconstrained          *)
(* amplitude is negative; it replaces chisq alone, by a value that is not  *)
(* below the unconstrained residual; best, amplitude and sigma stay the    *)
(* unconstrained ones, and without a refit chisq is the unconstrained      *)
(* residual sum of squares.                                                *)
(***************************************************************************)
C7_RefitReplacesOnlyChisq ==
    LET X   == design_Matrix
        fit == FitNow
        neg == fit.x[3][1] < 0
        chi == IF neg THEN ConstrainedChisq(TransitData, X)
               ELSE UnconstrainedChisq(TransitData, X)
    IN  /\ pc = "est_return" =>
              /\ refit = neg
              /\ best = fit.x
              /\ Sigma22 = Sigma_matrix22(TransitData, X)
              /\ chisq = chi
              /\ RatLeq(UnconstrainedChisq(TransitData, X), chisq)
        /\ (ret # <<>> /\ pc \in {"done", "est_assert", "lim_marginal"}) =>
              ret = <<fit.x[3], SigmaFixed(Sigma_matrix22(TransitData, X)), chi>>

C7_Witness ==
    /\ pc \in {"done", "lim_marginal"}
    /\ refit
    /\ ret # <<>>
    /\ ret[1][1] < 0
    /\ ret[3] # UnconstrainedChisq(TransitData, design_Matrix)

(***************************************************************************)
(* C8 as stated.  The derived (T0, P), and the basis family chosen from P, *)
(* are the same whatever the timing uncertainties.                         *)
(***************************************************************************)
C8_EphemerisIgnoresUncertainties ==
    (pc = "est_basis" /\ PlanetData = None) =>
        \A u \in [1..Ndata(TransitData) -> 1..2] :
            LET e == EphemerisFit([TransitData EXCEPT !.unc = u])
            IN  /\ e = T0P
                /\ PerturberIsOuter(Ppert, e[2]) = PerturberIsOuter(Ppert, T0P[2])

(***************************************************************************)
(* C8 as amended.  The derived (T0, P) is the inverse-variance weighted    *)
(* regression of time on index: it solves the weighted normal equations,   *)
(* and it and the basis family are unchanged when all uncertainties are    *)
(* multiplied by a common factor.                                          *)
(***************************************************************************)
C8_EphemerisIsWeightedFit ==
    (pc = "est_basis" /\ PlanetData = None) =>
        /\ WeightedNormalEquations(TransitData, T0P)
        /\ \A k \in 1..MaxScale :
              LET e == EphemerisFit(ScaledUnc(TransitData, k))
              IN  /\ e = T0P
                  /\ PerturberIsOuter(Ppert, e[2]) = PerturberIsOuter(Ppert, T0P[2])

C8_Witness ==
    /\ pc = "est_basis"
    /\ PlanetData = None
    /\ T0P # EphemerisFit(UniformUnc(TransitData))

(***************************************************************************)
(* C9.  Only levels in [0, 1) get past the assertion: the doubling search  *)
(* and the root-finder are never entered for a level outside [0, 1).       *)
(***************************************************************************)
C9_OnlyValidLevelsSearched ==
    pc \in {"lim_search", "lim_brenth"} => (0 <= CurrentLevel /\ CurrentLevel < QOne)

(***************************************************************************)
(* C10.  A returned request holds one limit per level, in request order,   *)
(* each equal to the limit a request for that level alone returns; and a   *)
(* request of levels in [0, 1) is not failed by the root-finder's bracket. *)
(***************************************************************************)
C10_LimitIndependentOfOtherLevels ==
    /\ (op = "limit" /\ pc = "done") =>
          /\ Len(mups) = Len(confidence_levels)
          /\ \A i \in 1..Len(mups) : mups[i] = SoloLimit(confidence_levels[i])
    /\ pc = "ValueError" => CurrentLevel < 0

C10_Witness ==
    /\ op = "limit"
    /\ pc = "done"
    /\ Len(mups) = 2
    /\ mups[1] # mups[2]
    /\ brackets[2] > SoloBound(guess, confidence_levels[2], MaxDoublings * MaxLevels)

====
